---- MODULE Spec2Model ----
(***************************************************************************)
(* DorefaConv2d (tensorlayer/layers/convolution/dorefa_conv.py): the       *)
(* layer object, its constructor, build and forward.                       *)
(*                                                                         *)
(* Python values are encoded as follows.  An optional value is a sequence  *)
(* of length 0 (None, or an attribute that was never assigned) or 1.       *)
(* A tuple or list is a sequence; Python index i is TLA+ index i + 1.      *)
(* A tensor is a term [op, params]: the primitives of the tensor runtime   *)
(* are uninterpreted, so a term records which primitive was applied to     *)
(* which operands.  An operation that raises returns the object as it was  *)
(* at the raise, with the exception in err.                                *)
(***************************************************************************)
EXTENDS Integers, Sequences, FiniteSets, TLC

VARIABLES
    self,   \* the layer object's attributes; None before construction
    args,   \* the arguments the constructor was called with
    call,   \* the last invocation: [op, arg]
    err,    \* the exception the last invocation raised, or NoErr
    ret,    \* the value the last invocation returned (forward's outputs)
    trace   \* the runtime primitives the last invocation called, in order

vars == <<self, args, call, err, ret, trace>>

----------------------------------------------------------------------------
(* Bounds and input sets *)

MaxStridesLen == 3
MaxChannels == 2

None == <<>>
Some(v) == <<v>>
Get(o) == o[1]

SeqsUpTo(S, n) == UNION {[1..k -> S] : k \in 0..n}

StrideValues == {1, 2}
StridesArgs == SeqsUpTo(StrideValues, MaxStridesLen)
DilationArgs == {<<1, 1>>, <<2, 3>>}
BitWArgs == {1, 2}
BitAArgs == {2, 3}
NFilterArgs == {16, 32}
FilterSizeArgs == {<<3, 5>>}
ActArgs == {None, Some("relu")}
PaddingArgs == {"SAME", "VALID"}
DataFormatArgs == {"channels_last", "channels_first", "channels_middle"}
RaisingInit == "raising_initializer"
WInitArgs == {"truncated_normal", RaisingInit}
BInitArgs == {None, Some("constant"), Some(RaisingInit)}
InChannelsArgs == {None} \cup {Some(c) : c \in 1..MaxChannels}

\* shapes handed to build: None, the empty shape, a 1-axis shape, and 4-axis
\* shapes whose axis 1 and axis -1 are drawn independently
InputsShapes ==
    {None, Some(<<>>), Some(<<MaxChannels>>)}
        \cup {Some(<<8, c1, 7, c2>>) : c1, c2 \in 1..MaxChannels}

Tensor(op, params) == [op |-> op, params |-> params]
Inputs == {Tensor("x1", <<>>), Tensor("x2", <<>>)}

----------------------------------------------------------------------------
(* Exceptions *)

NoErr == "none"
ErrGemm == "Exception: TODO. The current version use tf.matmul for inferencing."
ErrStrides == "ValueError: len(strides) should be 2."
ErrDataFormat == "Exception: data_format should be either channels_last or channels_first"
ErrIndex == "IndexError"
ErrType == "TypeError: 'NoneType' object is not subscriptable"
ErrAttribute == "AttributeError"
ErrInit == "initializer raised"

Ok(s) == [self |-> s, err |-> NoErr]
Raise(s, e) == [self |-> s, err |-> e]
\* sequencing: the next statement runs only if the previous one did not raise
\* (r is bound to its value once, by the singleton set)
Then(r, step(_)) ==
    CHOOSE out \in {IF v.err # NoErr THEN Raise(v.self, v.err) ELSE step(v.self) : v \in {r}} : TRUE

----------------------------------------------------------------------------
(* Python semantics used by the code *)

\* truthiness of Optional[int]: None and 0 are false
TruthyInt(o) == o # None /\ Get(o) # 0
\* truthiness of an optional object (a function, an initializer)
TruthyObj(o) == o # None

\* seq[i] for a Python index i (negative counts from the end)
PyIndexOk(seq, i) == -Len(seq) <= i /\ i < Len(seq)
PyIndex(seq, i) == IF i < 0 THEN seq[Len(seq) + i + 1] ELSE seq[i + 1]

----------------------------------------------------------------------------
(* Collaborators: the tensor runtime and the Layer base class *)

cabs(x) == Tensor("cabs", <<x>>)
quantize_active(x, bitA) == Tensor("quantize_active", <<x, bitA>>)
quantize_weight(x, bitW) == Tensor("quantize_weight", <<x, bitW>>)
conv2d(input, filters, strides, padding, data_format, dilations) ==
    Tensor("conv2d", <<input, filters, strides, padding, data_format, dilations>>)
bias_add(value, bias, data_format) == Tensor("bias_add", <<value, bias, data_format>>)
apply_act(act, outputs) == Tensor(act, <<outputs>>)

\* Layer._get_weights: runs the initializer over the shape, registers the
\* new variable with the layer and returns it
_get_weights(s, var_name, shape, init) ==
    IF init = RaisingInit
    THEN [self |-> s, err |-> ErrInit, value |-> None]
    ELSE LET w == Tensor(var_name, <<shape, init>>)
         IN  [self |-> [s EXCEPT !._trainable_weights = Append(@, w)],
              err |-> NoErr, value |-> Some(w)]

----------------------------------------------------------------------------
(* DorefaConv2d.build *)

HasPair(hw) == PyIndexOk(hw, 0) /\ PyIndexOk(hw, 1)
to_nhwc(hw) == <<1, PyIndex(hw, 0), PyIndex(hw, 1), 1>>
\* mutant: the channels_first layout is the channels_last one
to_nchw_as_nhwc(hw) == <<1, PyIndex(hw, 0), PyIndex(hw, 1), 1>>
to_nchw(hw) == <<1, 1, PyIndex(hw, 0), PyIndex(hw, 1)>>

\* mutant: the channel count is always read from the last axis
resolve_pre_channel_last_axis(s, inputs_shape, axis) ==
    IF TruthyInt(s.in_channels)
    THEN Ok([s EXCEPT !.pre_channel = s.in_channels])
    ELSE IF inputs_shape = None THEN Raise(s, ErrType)
    ELSE IF ~PyIndexOk(Get(inputs_shape), -1) THEN Raise(s, ErrIndex)
    ELSE LET c == Some(PyIndex(Get(inputs_shape), -1))
         IN  Ok([s EXCEPT !.pre_channel = c, !.in_channels = c])

\* if self.in_channels: pre_channel = in_channels
\* else: pre_channel = inputs_shape[axis]; in_channels = pre_channel
resolve_pre_channel(s, inputs_shape, axis) ==
    IF TruthyInt(s.in_channels)
    THEN Ok([s EXCEPT !.pre_channel = s.in_channels])
    ELSE IF inputs_shape = None THEN Raise(s, ErrType)
    ELSE IF ~PyIndexOk(Get(inputs_shape), axis) THEN Raise(s, ErrIndex)
    ELSE LET c == Some(PyIndex(Get(inputs_shape), axis))
         IN  Ok([s EXCEPT !.pre_channel = c, !.in_channels = c])

build_channels_last(s, inputs_shape) ==
    LET r1 == resolve_pre_channel([s EXCEPT !.data_format = "NHWC"], inputs_shape, -1)
        strides(t) == IF HasPair(t._strides)
                      THEN Ok([t EXCEPT !._strides = to_nhwc(@)])
                      ELSE Raise(t, ErrIndex)
        dilation(t) == IF HasPair(t._dilation_rate)
                       THEN Ok([t EXCEPT !._dilation_rate = to_nhwc(@)])
                       ELSE Raise(t, ErrIndex)
    IN  Then(Then(r1, strides), dilation)

build_channels_first(s, inputs_shape) ==
    LET r1 == resolve_pre_channel([s EXCEPT !.data_format = "NCHW"], inputs_shape, 1)
        strides(t) == IF HasPair(t._strides)
                      THEN Ok([t EXCEPT !._strides = to_nchw(@)])
                      ELSE Raise(t, ErrIndex)
        dilation(t) == IF HasPair(t._dilation_rate)
                       THEN Ok([t EXCEPT !._dilation_rate = to_nchw(@)])
                       ELSE Raise(t, ErrIndex)
    IN  Then(Then(r1, strides), dilation)

\* mutant: the Bias is never allocated
build_weights_skip_bias(s) ==
    LET t == [s EXCEPT !.filter_shape =
                  Some(<<PyIndex(s.filter_size, 0), PyIndex(s.filter_size, 1),
                         Get(s.pre_channel), s.n_filter>>)]
        w == _get_weights(t, "filters", Get(t.filter_shape), t.W_init)
    IN  IF w.err # NoErr THEN Raise(w.self, w.err)
        ELSE Ok([w.self EXCEPT !.W = w.value])

\* filter_shape, then the Filter, then the Bias if b_init
build_weights(s) ==
    LET t == [s EXCEPT !.filter_shape =
                  Some(<<PyIndex(s.filter_size, 0), PyIndex(s.filter_size, 1),
                         Get(s.pre_channel), s.n_filter>>)]
        w == _get_weights(t, "filters", Get(t.filter_shape), t.W_init)
        u == [w.self EXCEPT !.W = w.value]
        b == _get_weights(u, "biases", <<u.n_filter>>, Get(u.b_init))
    IN  IF w.err # NoErr THEN Raise(w.self, w.err)
        ELSE IF ~TruthyObj(u.b_init) THEN Ok(u)
        ELSE IF b.err # NoErr THEN Raise(b.self, b.err)
        ELSE Ok([b.self EXCEPT !.b = b.value])

\* mutant: the canonical tags are accepted too, so a built layer builds again
build_accepts_canonical(s, inputs_shape) ==
    IF s.data_format \in {"channels_last", "NHWC"}
    THEN Then(build_channels_last(s, inputs_shape), build_weights)
    ELSE IF s.data_format \in {"channels_first", "NCHW"}
    THEN Then(build_channels_first(s, inputs_shape), build_weights)
    ELSE Raise(s, ErrDataFormat)

\* mutant: an unknown data_format falls back to channels_last
build_default_channels_last(s, inputs_shape) ==
    IF s.data_format = "channels_first"
    THEN Then(build_channels_first(s, inputs_shape), build_weights)
    ELSE Then(build_channels_last(s, inputs_shape), build_weights)

build(s, inputs_shape) ==
    IF s.data_format = "channels_last"
    THEN Then(build_channels_last(s, inputs_shape), build_weights)
    ELSE IF s.data_format = "channels_first"
    THEN Then(build_channels_first(s, inputs_shape), build_weights)
    ELSE Raise(s, ErrDataFormat)

----------------------------------------------------------------------------
(* DorefaConv2d.__init__ *)

\* the attribute assignments, after Layer.__init__ (which sets _built False
\* and starts with no registered weights)
init_attrs(a) ==
    [ bitW |-> a.bitW, bitA |-> a.bitA, n_filter |-> a.n_filter,
      filter_size |-> a.filter_size,
      strides |-> a.strides, _strides |-> a.strides,
      act |-> a.act, padding |-> a.padding, use_gemm |-> a.use_gemm,
      data_format |-> a.data_format,
      dilation_rate |-> a.dilation_rate, _dilation_rate |-> a.dilation_rate,
      W_init |-> a.W_init, b_init |-> a.b_init, in_channels |-> a.in_channels,
      _built |-> FALSE, _trainable_weights |-> <<>>,
      pre_channel |-> None, filter_shape |-> None, W |-> None, b |-> None ]

mark_built(s) == Ok([s EXCEPT !._built = TRUE])

\* if self.in_channels: self.build(None); self._built = True
eager_build(s) ==
    IF TruthyInt(s.in_channels) THEN Then(build(s, None), mark_built) ELSE Ok(s)

check_use_gemm(s) == IF s.use_gemm THEN Raise(s, ErrGemm) ELSE Ok(s)

check_strides(s) == IF Len(s.strides) # 2 THEN Raise(s, ErrStrides) ELSE Ok(s)

__init__(a) ==
    Then(Then(eager_build(init_attrs(a)), check_use_gemm), check_strides)

----------------------------------------------------------------------------
(* DorefaConv2d.forward *)

\* tf.nn.conv2d, then bias_add if b_init, then act if act
conv_bias_act(s, x, W_) ==
    LET o1 == conv2d(x, W_, s._strides, s.padding, s.data_format, s._dilation_rate)
        t1 == <<"conv2d">>
        needb == TruthyObj(s.b_init)
        o2 == IF needb THEN bias_add(o1, Get(s.b), s.data_format) ELSE o1
        t2 == IF needb THEN Append(t1, "bias_add") ELSE t1
        o3 == IF TruthyObj(s.act) THEN apply_act(Get(s.act), o2) ELSE o2
        t3 == IF TruthyObj(s.act) THEN Append(t2, "act") ELSE t2
    IN  IF needb /\ s.b = None
        THEN [self |-> s, err |-> ErrAttribute, outputs |-> None, trace |-> t1]
        ELSE [self |-> s, err |-> NoErr, outputs |-> Some(o3), trace |-> t3]

\* mutant: the activations are quantized before the clipped-abs
forward_quantize_first(s, inputs) ==
    IF s.W = None
    THEN [self |-> s, err |-> ErrAttribute, outputs |-> None, trace |-> <<>>]
    ELSE LET r == conv_bias_act(s, cabs(quantize_active(inputs, s.bitA)),
                                quantize_weight(Get(s.W), s.bitW))
         IN  [r EXCEPT !.trace = <<"quantize_active", "cabs", "quantize_weight">> \o @]

\* mutant: the quantized Filter is stored back into self.W
forward_overwrites_W(s, inputs) ==
    IF s.W = None
    THEN [self |-> s, err |-> ErrAttribute, outputs |-> None, trace |-> <<>>]
    ELSE LET W_ == quantize_weight(Get(s.W), s.bitW)
             r == conv_bias_act(s, quantize_active(cabs(inputs), s.bitA), W_)
         IN  [r EXCEPT !.self = [s EXCEPT !.W = Some(W_)],
                       !.trace = <<"cabs", "quantize_active", "quantize_weight">> \o @]

\* reading self.W or self.b before build assigned it raises AttributeError
forward(s, inputs) ==
    IF s.W = None
    THEN [self |-> s, err |-> ErrAttribute, outputs |-> None, trace |-> <<>>]
    ELSE LET r == conv_bias_act(s, quantize_active(cabs(inputs), s.bitA),
                                quantize_weight(Get(s.W), s.bitW))
         IN  [r EXCEPT !.trace = <<"cabs", "quantize_active", "quantize_weight">> \o @]

----------------------------------------------------------------------------
(* The state machine *)

ArgsWith(use_gemm) ==
    [ bitW : BitWArgs, bitA : BitAArgs, n_filter : NFilterArgs,
      filter_size : FilterSizeArgs, strides : StridesArgs, act : ActArgs,
      padding : PaddingArgs, use_gemm : {use_gemm}, data_format : DataFormatArgs,
      dilation_rate : DilationArgs, W_init : WInitArgs, b_init : BInitArgs,
      in_channels : InChannelsArgs ]

NoCall == [op |-> "none", arg |-> None]

Init ==
    /\ self = None
    /\ args = None
    /\ call = NoCall
    /\ err = NoErr
    /\ ret = None
    /\ trace = <<>>

\* a constructor call that raised leaves no object to call
Live == call.op # "none" /\ ~(call.op = "__init__" /\ err # NoErr)

Construct(a) ==
    /\ call.op = "none"
    /\ \E r \in {__init__(a)} :
           /\ self' = r.self
           /\ err' = r.err
    /\ args' = a
    /\ call' = [op |-> "__init__", arg |-> None]
    /\ ret' = None
    /\ trace' = <<>>

\* build as the framework (or the constructor) invokes it: build(shape),
\* then _built = True
Build(inputs_shape) ==
    /\ Live
    /\ \E r \in {Then(build(self, inputs_shape), mark_built)} :
           /\ self' = r.self
           /\ err' = r.err
    /\ call' = [op |-> "build", arg |-> inputs_shape]
    /\ ret' = None
    /\ trace' = <<>>
    /\ UNCHANGED args

\* forward is only dispatched to a built layer
Forward(inputs) ==
    /\ Live
    /\ self._built
    /\ \E r \in {forward(self, inputs)} :
           /\ self' = r.self
           /\ err' = r.err
           /\ ret' = r.outputs
           /\ trace' = r.trace
    /\ call' = [op |-> "forward", arg |-> Some(inputs)]
    /\ UNCHANGED args

\* (the guard is repeated outside the quantifier so that the argument space
\* is enumerated only where a constructor call is possible)
ConstructAny ==
    call.op = "none" /\ \E g \in BOOLEAN : \E a \in ArgsWith(g) : Construct(a)
BuildAny == \E shp \in InputsShapes : Build(shp)
ForwardAny == \E x \in Inputs : Forward(x)

Next == ConstructAny \/ BuildAny \/ ForwardAny

Spec == Init /\ [][Next]_vars

----------------------------------------------------------------------------
(* Reading the state *)

Constructed == call.op # "none"
ValidFormats == {"channels_last", "channels_first"}
IsBuilt == Live /\ self._built

\* the conv2d call inside forward's outputs: under the activation function
\* and the bias-add, when they were applied
UnderAct(t) == IF t.op \in {"conv2d", "bias_add"} THEN t ELSE t.params[1]
UnderBias(t) == IF t.op = "bias_add" THEN t.params[1] ELSE t
ConvCall(t) == UnderBias(UnderAct(t))

ForwardReturned == call.op = "forward" /\ err = NoErr /\ ret # None

\* the attributes build resolves and the parameters it registers
Resolved(s) ==
    <<s.in_channels, s.pre_channel, s.filter_shape, s.data_format, s._strides,
      s._dilation_rate, s.W, s.b, s._trainable_weights>>

----------------------------------------------------------------------------
(* C1: every forward call computes, in this order, the clipped-abs of the  *)
(* raw input, its quantization to bitA bits, the quantization of the       *)
(* Filter to bitW bits, the convolution, the bias-add (only if a Bias      *)
(* exists) and the activation function (only if configured); the           *)
(* convolution's activation operand is quantize_active(cabs(input), bitA), *)
(* never cabs(quantize_active(input, bitA)), and its filter operand is     *)
(* quantize_weight(Filter, bitW).                                          *)
C1_ForwardOrder ==
    call.op = "forward" =>
        /\ ForwardReturned
        /\ LET x == Get(call.arg)
               conv == ConvCall(Get(ret))
               expected_conv ==
                   conv2d(quantize_active(cabs(x), self.bitA),
                          quantize_weight(Get(self.W), self.bitW),
                          self._strides, self.padding, self.data_format,
                          self._dilation_rate)
               with_bias == IF self.b # None
                            THEN bias_add(expected_conv, Get(self.b), self.data_format)
                            ELSE expected_conv
               with_act == IF self.act # None
                           THEN apply_act(Get(self.act), with_bias)
                           ELSE with_bias
           IN  /\ conv.op = "conv2d"
               /\ conv.params[1] = quantize_active(cabs(x), self.bitA)
               /\ conv.params[1] # cabs(quantize_active(x, self.bitA))
               /\ conv.params[2] = quantize_weight(Get(self.W), self.bitW)
               /\ Get(ret) = with_act
               /\ trace = <<"cabs", "quantize_active", "quantize_weight", "conv2d">>
                            \o (IF self.b # None THEN <<"bias_add">> ELSE <<>>)
                            \o (IF self.act # None THEN <<"act">> ELSE <<>>)

C1_Witness ==
    /\ ForwardReturned
    /\ self.b # None
    /\ self.act # None
    /\ Len(trace) = 6

(* C2: a forward call leaves the stored Filter and Bias tensors and every  *)
(* other attribute of the layer (bitW, bitA, padding, data_format, strides,*)
(* dilation, in_channels, filter_shape) as they were before the call.      *)
C2_ForwardFrame ==
    [][call'.op = "forward" =>
          /\ self'.W = self.W
          /\ self'.b = self.b
          /\ self'._trainable_weights = self._trainable_weights
          /\ self'.bitW = self.bitW
          /\ self'.bitA = self.bitA
          /\ self'.padding = self.padding
          /\ self'.data_format = self.data_format
          /\ self'._strides = self._strides
          /\ self'._dilation_rate = self._dilation_rate
          /\ self'.in_channels = self.in_channels
          /\ self'.filter_shape = self.filter_shape
          /\ self' = self]_vars

\* a forward call has returned on a layer that has a Filter and a Bias
C2_Witness ==
    /\ ForwardReturned
    /\ self.W # None
    /\ self.b # None
    /\ call.arg = Some(Tensor("x2", <<>>))

(* C3: a successfully constructed layer is BUILT iff in_channels was       *)
(* supplied; an UNBUILT layer becomes BUILT on its first successful build; *)
(* and BUILT is terminal: no later build or forward call returns the layer *)
(* to UNBUILT or changes its resolved in_channels, filter shape,           *)
(* data_format, strides, dilation or registered Filter/Bias.               *)
C3_AfterInit ==
    (call.op = "__init__" /\ err = NoErr) =>
        (self._built <=> args.in_channels # None)

C3_FirstBuild ==
    (Live /\ ~self._built /\ call'.op = "build" /\ err' = NoErr) => self'._built

C3_Terminal ==
    IsBuilt => (self'._built /\ Resolved(self') = Resolved(self))

C3_BuiltOnce == []C3_AfterInit /\ [][C3_FirstBuild /\ C3_Terminal]_vars

\* a lazily built layer on which build was then called again
C3_Witness ==
    /\ IsBuilt
    /\ args.in_channels = None
    /\ call.op = "build"
    /\ err # NoErr

(* C4: after a successful build the strides and dilation are the caller's  *)
(* (h, w) values with 1 at the batch and channel axes: (1, h, w, 1) for    *)
(* channels_last, (1, 1, h, w) for channels_first; and these are what      *)
(* forward passes to the convolution.                                      *)
C4_Expand(hw, fmt) ==
    IF fmt = "channels_last" THEN <<1, hw[1], hw[2], 1>> ELSE <<1, 1, hw[1], hw[2]>>

C4_StridesLayout ==
    (Constructed /\ self._built /\ Len(args.strides) = 2
        /\ Len(args.dilation_rate) = 2) =>
        /\ self._strides = C4_Expand(args.strides, args.data_format)
        /\ self._dilation_rate = C4_Expand(args.dilation_rate, args.data_format)
        /\ ForwardReturned =>
              /\ ConvCall(Get(ret)).params[3] = C4_Expand(args.strides, args.data_format)
              /\ ConvCall(Get(ret)).params[6] =
                     C4_Expand(args.dilation_rate, args.data_format)

C4_Witness ==
    /\ ForwardReturned
    /\ args.data_format = "channels_first"
    /\ args.strides = <<1, 2>>
    /\ args.dilation_rate = <<2, 3>>

(* C5: build resolves the input-channel count as the configured            *)
(* in_channels when one was supplied, otherwise as input_shape's last axis *)
(* (channels_last) or axis 1 (channels_first); the Filter is registered    *)
(* with shape (filter_height, filter_width, resolved channels, n_filter).  *)
\* (None where input_shape has no such axis: build cannot then succeed)
C5_Channels ==
    IF args.in_channels # None THEN args.in_channels
    ELSE IF call.arg = None THEN None
    ELSE IF args.data_format = "channels_last"
         THEN (IF Len(Get(call.arg)) >= 1
               THEN Some(Get(call.arg)[Len(Get(call.arg))]) ELSE None)
         ELSE (IF Len(Get(call.arg)) >= 2 THEN Some(Get(call.arg)[2]) ELSE None)

C5_FilterShape ==
    /\ (Constructed /\ self._built /\ args.in_channels # None) =>
            self.pre_channel = args.in_channels
    /\ (Constructed /\ self._built /\ (call.op = "build" => err = NoErr)
            /\ (call.op = "build" \/ args.in_channels # None)) =>
          /\ self.pre_channel = C5_Channels
          /\ self.in_channels = C5_Channels
    /\ (Constructed /\ self._built) =>
          /\ self.filter_shape =
                 Some(<<args.filter_size[1], args.filter_size[2],
                        Get(self.pre_channel), args.n_filter>>)
          /\ self.W = Some(Tensor("filters", <<Get(self.filter_shape), args.W_init>>))
          /\ self._trainable_weights[1] = Get(self.W)

C5_Witness ==
    /\ IsBuilt
    /\ call.op = "build"
    /\ err = NoErr
    /\ args.data_format = "channels_first"
    /\ Len(Get(call.arg)) = 4
    /\ Get(call.arg)[2] # Get(call.arg)[4]
    /\ self.filter_shape = Some(<<3, 5, Get(call.arg)[2], args.n_filter>>)

(* C6: build registers a Bias of shape (n_filter,) iff b_init is present,  *)
(* and forward applies bias-add iff that Bias exists: forward never reads  *)
(* a Bias that was not allocated, and without b_init the output is the     *)
(* convolution (then the optional activation) with no bias-add.            *)
C6_BiasIffBInit ==
    /\ (Constructed /\ self._built) =>
          /\ self.b # None <=> args.b_init # None
          /\ self.b # None =>
                /\ self.b = Some(Tensor("biases", <<(<<args.n_filter>>), Get(args.b_init)>>))
                /\ self._trainable_weights = <<Get(self.W), Get(self.b)>>
          /\ self.b = None => self._trainable_weights = <<Get(self.W)>>
    /\ call.op = "forward" =>
          /\ err # ErrAttribute
          /\ ForwardReturned
          /\ UnderAct(Get(ret)).op = "bias_add" <=> self.b # None
          /\ (\E i \in 1..Len(trace) : trace[i] = "bias_add") <=> self.b # None
          /\ self.b = None => UnderAct(Get(ret)).op = "conv2d"

C6_Witness ==
    /\ ForwardReturned
    /\ args.b_init = None
    /\ self.b = None
    /\ UnderAct(Get(ret)).op = "conv2d"

(* C7: constructing with strides whose length is not 2 fails with the      *)
(* stride-arity error, for every such length and every combination of the  *)
(* other arguments, also when in_channels is supplied.                     *)
C7_StridesArityError ==
    (call.op = "__init__" /\ Len(args.strides) # 2) => err = ErrStrides

(* C8: build fails with the data_format error if data_format is neither    *)
(* channels_last nor channels_first and passes that check for exactly      *)
(* those two values; when it fails for this reason no parameter is         *)
(* registered and data_format, strides, dilation and in_channels are as    *)
(* they were before the call.                                              *)
C8_BuildCall ==
    call'.op = "build" =>
        /\ self.data_format \notin ValidFormats =>
              /\ err' = ErrDataFormat
              /\ self'._trainable_weights = self._trainable_weights
              /\ self'.W = self.W /\ self'.b = self.b
              /\ self'.data_format = self.data_format
              /\ self'._strides = self._strides
              /\ self'._dilation_rate = self._dilation_rate
              /\ self'.in_channels = self.in_channels
        /\ self.data_format \in ValidFormats => err' # ErrDataFormat

\* the build call the constructor makes when in_channels is supplied
C8_BuildInInit ==
    (call'.op = "__init__" /\ args'.in_channels # None) =>
        /\ args'.data_format \notin ValidFormats =>
              /\ err' = ErrDataFormat
              /\ self'._trainable_weights = <<>>
              /\ self'.W = None /\ self'.b = None
              /\ self'.data_format = args'.data_format
              /\ self'._strides = args'.strides
              /\ self'._dilation_rate = args'.dilation_rate
              /\ self'.in_channels = args'.in_channels
        /\ args'.data_format \in ValidFormats => err' # ErrDataFormat

C8_DataFormatError == [][(Constructed => C8_BuildCall) /\ C8_BuildInInit]_vars

C8_Witness ==
    /\ call.op = "build"
    /\ err = ErrDataFormat
    /\ args.data_format = "channels_middle"
    /\ self.data_format = "channels_middle"
    /\ self.W = None

(* C9: when construction fails because use_gemm was selected or because of *)
(* wrong stride arity, build has not run: no Filter or Bias is registered  *)
(* and the layer is not marked BUILT, also when in_channels was supplied.  *)
C9_ArgumentErrorsFirst ==
    (call.op = "__init__" /\ err \in {ErrGemm, ErrStrides}) =>
        /\ self.W = None
        /\ self.b = None
        /\ self._trainable_weights = <<>>
        /\ ~self._built

(* C10: every build call either completes fully or fails leaving the layer *)
(* state identical to the state before the call, whatever the step that    *)
(* fails.                                                                  *)
C10_BuildAllOrNothing ==
    [][(Constructed /\ call'.op = "build") =>
          \/ /\ err' = NoErr
             /\ self'.data_format \in {"NHWC", "NCHW"}
             /\ Len(self'._strides) = 4 /\ Len(self'._dilation_rate) = 4
             /\ self'.in_channels # None /\ self'.filter_shape # None
             /\ self'.W # None
             /\ self'.b # None <=> self'.b_init # None
          \/ /\ err' # NoErr
             /\ self' = self]_vars

====
